---- MODULE Spec2Model ----
(***************************************************************************)
(* Model of the project initializer of swarmcloud                         *)
(* (src/src/commands/init.py, class ProjectInitializer).                   *)
(*                                                                         *)
(* The file system is a function from paths (sequences of names, <<>> is   *)
(* the root) to nodes.  Every process is one call of                       *)
(* ProjectInitializer.initialize(); its position in the code is proc[p].pc.*)
(***************************************************************************)
EXTENDS Integers, Sequences, FiniteSets, TLC

VARIABLES
    fs,      \* the file system: [existing paths -> node]
    fs0,     \* the file system before any initialize call started
    req,     \* [process -> the fields of its ProjectInitializer]
    proc,    \* [process -> control state of its initialize() call]
    env      \* the environment: the interpreter's Enum formatting, failing calls

vars == <<fs, fs0, req, proc, env>>

----------------------------------------------------------------------------
(* Bounds *)

\* depth of the deepest base path below the root
MaxDepth == 2

----------------------------------------------------------------------------
(* Values *)

\* names of the directories below the root that base paths are made of
ChainNames == <<"d1", "d2", "d3", "d4">>

ProjectName == "proj"

\* Python's None
NoneVal == "<None>"

Registries == {NoneVal, "reg.example.com"}

\* class CloudProvider(str, Enum): the values
CloudProvider == {"aws", "gcp", "azure", "local"}

\* str() of a CloudProvider member (Enum.__str__: ClassName.MEMBER)
CloudProviderStr(v) ==
    CASE v = "aws"   -> "CloudProvider.AWS"
      [] v = "gcp"   -> "CloudProvider.GCP"
      [] v = "azure" -> "CloudProvider.AZURE"
      [] v = "local" -> "CloudProvider.LOCAL"

\* class ProjectTemplate(str, Enum): the values
ProjectTemplate == {"basic", "distributed", "monitoring"}

\* environment failures a file-system call can raise
FaultKinds == {"PermissionError", "OSError"}

DirNode == [kind |-> "dir", data |-> <<>>]
FileNode(d) == [kind |-> "file", data |-> d]
EmptyFile == FileNode(<<>>)

----------------------------------------------------------------------------
(* Paths and file-system calls (pathlib / os / shutil as init.py uses them) *)

Root == <<>>

\* Path.parent: the root is its own parent
Parent(path) == IF path = Root THEN Root ELSE SubSeq(path, 1, Len(path) - 1)

\* path / name
Join(path, rel) == path \o rel

IsPrefix(a, b) == Len(a) <= Len(b) /\ SubSeq(b, 1, Len(a)) = a

\* Path.exists()
PathExists(f, path) == path \in DOMAIN f

IsDir(f, path) == PathExists(f, path) /\ f[path].kind = "dir"

\* any(path.iterdir())
NonEmptyDir(f, path) ==
    \E q \in DOMAIN f : Len(q) = Len(path) + 1 /\ IsPrefix(path, q)

Put(f, path, node) ==
    [q \in (DOMAIN f) \cup {path} |-> IF q = path THEN node ELSE f[q]]

\* the result of a call: the file system after it and the exception it raised
Ok(f) == [fs |-> f, exc |-> "none"]
Raise(f, e) == [fs |-> f, exc |-> e]

\* Path.mkdir(parents=True, exist_ok=True)
RECURSIVE MkdirParents(_, _)
MkdirParents(f, path) ==
    IF PathExists(f, path)
    THEN IF IsDir(f, path) THEN Ok(f) ELSE Raise(f, "FileExistsError")
    ELSE IF PathExists(f, Parent(path))
         THEN IF IsDir(f, Parent(path))
              THEN Ok(Put(f, path, DirNode))
              ELSE Raise(f, "NotADirectoryError")
         ELSE LET r == MkdirParents(f, Parent(path))
              IN  IF r.exc # "none" THEN r ELSE Ok(Put(r.fs, path, DirNode))

\* Path.mkdir(exist_ok=True)
Mkdir(f, path) ==
    IF PathExists(f, path)
    THEN IF IsDir(f, path) THEN Ok(f) ELSE Raise(f, "FileExistsError")
    ELSE IF ~PathExists(f, Parent(path)) THEN Raise(f, "FileNotFoundError")
    ELSE IF ~IsDir(f, Parent(path)) THEN Raise(f, "NotADirectoryError")
    ELSE Ok(Put(f, path, DirNode))

\* Path.touch(): creates an empty file, leaves an existing entry as it is
Touch(f, path) ==
    IF PathExists(f, path) THEN Ok(f)
    ELSE IF ~PathExists(f, Parent(path)) THEN Raise(f, "FileNotFoundError")
    ELSE IF ~IsDir(f, Parent(path)) THEN Raise(f, "NotADirectoryError")
    ELSE Ok(Put(f, path, EmptyFile))

\* Path.unlink()
Unlink(f, path) ==
    IF ~PathExists(f, path) THEN Raise(f, "FileNotFoundError")
    ELSE IF IsDir(f, path) THEN Raise(f, "IsADirectoryError")
    ELSE Ok([q \in (DOMAIN f) \ {path} |-> f[q]])

\* open(path, "w"): creates or truncates the file
OpenW(f, path) ==
    IF IsDir(f, path) THEN Raise(f, "IsADirectoryError")
    ELSE IF ~PathExists(f, Parent(path)) THEN Raise(f, "FileNotFoundError")
    ELSE IF ~IsDir(f, Parent(path)) THEN Raise(f, "NotADirectoryError")
    ELSE Ok(Put(f, path, EmptyFile))

\* with open(path, "w") as f: f.write(content)
WriteFile(f, path, content) ==
    LET r == OpenW(f, path)
    IN  IF r.exc # "none" THEN r ELSE Ok(Put(r.fs, path, FileNode(content)))

\* what is left of f when the tree at path is removed
RemoveTree(f, path) == [q \in {x \in DOMAIN f : ~IsPrefix(path, x)} |-> f[q]]

\* what is left of f when everything below path is removed
RemoveBelow(f, path) ==
    [q \in {x \in DOMAIN f : x = path \/ ~IsPrefix(path, x)} |-> f[q]]

----------------------------------------------------------------------------
(* The request: the fields ProjectInitializer.__init__ sets *)

\* self.project_path = path / name
ProjectPath(r) == Join(r.base, <<r.name>>)

\* absence of a path (find_parent_swarm_project returns None)
NoPath == <<NoneVal>>

\* is_swarm_project: the indicators
Indicators == {"aiswarm.yaml", "agents", "infrastructure"}

\* a predicate that knows the manifest only
IsSwarmProjectManifestOnly(f, path) ==
    PathExists(f, Join(path, <<"aiswarm.yaml">>))

\* is_swarm_project(path)
IsSwarmProject(f, path) ==
    \E indicator \in Indicators : PathExists(f, Join(path, <<indicator>>))

\* a walk that stops after the parent of the path
FindParentOneLevel(f, current) ==
    IF current = Parent(current) THEN NoPath
    ELSE IF IsSwarmProject(f, current) THEN current
    ELSE IF Parent(current) # Root /\ IsSwarmProject(f, Parent(current))
    THEN Parent(current)
    ELSE NoPath

\* a walk that goes on to the top and returns the farthest project
RECURSIVE FindParentFarthest(_, _)
FindParentFarthest(f, current) ==
    IF current = Parent(current) THEN NoPath
    ELSE LET above == FindParentFarthest(f, Parent(current))
         IN  IF above # NoPath THEN above
             ELSE IF IsSwarmProject(f, current) THEN current
             ELSE NoPath

\* find_parent_swarm_project(path): the loop from current = path
RECURSIVE FindParentSwarmProject(_, _)
FindParentSwarmProject(f, current) ==
    IF current = Parent(current) THEN NoPath
    ELSE IF IsSwarmProject(f, current) THEN current
    ELSE FindParentSwarmProject(f, Parent(current))

\* find_parent_swarm_project(path): the directories on which the loop
\* calls is_swarm_project, in the order of the calls
RECURSIVE WalkExamined(_, _)
WalkExamined(f, current) ==
    IF current = Parent(current) THEN <<>>
    ELSE IF IsSwarmProject(f, current) THEN <<current>>
    ELSE <<current>> \o WalkExamined(f, Parent(current))

\* a format that always gives the member's name
FormatProviderByName(r, e) == CloudProviderStr(r.provider)

\* f"{self.provider}": str.__format__ of the value, or Enum.__str__ of a member
\* when the interpreter formats a mixed-in Enum by str()
FormatProvider(r, e) ==
    IF r.typed /\ e.py311 THEN CloudProviderStr(r.provider) ELSE r.provider

\* create_project_structure: directories
Directories(r, e) ==
    << <<"agents">>,
       <<"infrastructure", FormatProvider(r, e)>>,
       <<"scripts">>,
       <<"config">>,
       <<"tests">>,
       <<"docs">> >>

\* a YAML scalar as safe_dump writes it and safe_load reads it
YamlScalar(v) == IF v = NoneVal THEN "null" ELSE v
YamlValue(s) == IF s = "null" THEN NoneVal ELSE s

\* yaml.safe_dump cannot represent an Enum member (SafeRepresenter has no
\* representer for a subclass of str): it raises RepresenterError
Representable(r) == ~r.typed

\* a dump that writes the project name where the registry url belongs
YamlDumpSwapped(r) ==
    << "project", YamlScalar(r.name), YamlScalar(r.project_id),
       YamlScalar(r.template),
       "registry", YamlScalar(r.name),
       "infrastructure", YamlScalar(r.provider) >>

\* yaml.safe_dump(config, f, sort_keys=False), the fields the request decides
YamlDump(r) ==
    << "project", YamlScalar(r.name), YamlScalar(r.project_id),
       YamlScalar(r.template),
       "registry", YamlScalar(r.registry),
       "infrastructure", YamlScalar(r.provider) >>

\* yaml.safe_load of a manifest
YamlLoad(d) ==
    [ project_name |-> YamlValue(d[2]), project_id |-> YamlValue(d[3]),
      project_template |-> YamlValue(d[4]), registry_url |-> YamlValue(d[6]),
      infrastructure_provider |-> YamlValue(d[8]) ]

IsManifest(n) == n.kind = "file" /\ Len(n.data) = 8 /\ n.data[1] = "project"

ManifestPath(r) == Join(ProjectPath(r), <<"aiswarm.yaml">>)
AgentPath(r) == Join(ProjectPath(r), <<"agents", "example-agent">>)
AgentFiles == <<"main.py", "Dockerfile", "requirements.txt">>

----------------------------------------------------------------------------
(* Initial states *)

BasePath(depth) == SubSeq(ChainNames, 1, depth)

IndicatorNode(ind) ==
    IF ind = "aiswarm.yaml" THEN FileNode(<<"old">>) ELSE DirNode

\* what the project directory holds before the call
PreContents ==
    {"absent", "empty", "file", "manifest", "agents", "infrastructure",
     "docsfile"}

PreEntries(pp, pre) ==
    CASE pre = "absent" -> {}
      [] pre = "empty" -> {<<pp, DirNode>>}
      [] pre = "file" ->
            {<<pp, DirNode>>,
             <<Join(pp, <<"existing-file.txt">>), FileNode(<<"old">>)>>}
      [] pre = "manifest" ->
            {<<pp, DirNode>>,
             <<Join(pp, <<"aiswarm.yaml">>), FileNode(<<"old">>)>>}
      [] pre = "agents" ->
            {<<pp, DirNode>>, <<Join(pp, <<"agents">>), DirNode>>}
      [] pre = "infrastructure" ->
            {<<pp, DirNode>>, <<Join(pp, <<"infrastructure">>), DirNode>>}
      [] pre = "docsfile" ->
            {<<pp, DirNode>>, <<Join(pp, <<"docs">>), FileNode(<<"old">>)>>}

\* the base path and its ancestors exist; the directories at the depths in
\* marked hold the indicator ind
InitialEntries(depth, marked, ind, pre) ==
    {<<BasePath(k), DirNode>> : k \in 0..depth}
    \cup {<<Join(BasePath(k), <<ind>>), IndicatorNode(ind)>> : k \in marked}
    \cup PreEntries(Join(BasePath(depth), <<ProjectName>>), pre)

FsOf(entries) ==
    [q \in {e[1] : e \in entries} |-> (CHOOSE e \in entries : e[1] = q)[2]]

Request(depth, registry, provider, template, typed, git_init, force, id) ==
    [ name |-> ProjectName, base |-> BasePath(depth), registry |-> registry,
      provider |-> provider, template |-> template, typed |-> typed,
      git_init |-> git_init, force |-> force, project_id |-> id ]

ProcInit ==
    [ pc |-> "validate", idx |-> 0, err |-> "none", failedAt |-> "none",
      cause |-> "none", raised |-> "none", raisedBy |-> "none",
      outcome |-> "running",
      asked |-> FALSE, answer |-> "none",
      cleanupAsked |-> FALSE, cleanupAnswer |-> "none",
      errorPrinted |-> FALSE, warned |-> FALSE, faulted |-> FALSE,
      checkedEarly |-> FALSE, gitCalls |-> 0, steps |-> <<>> ]

\* one call of initialize()
Init ==
    \E depth \in 0..MaxDepth, ind \in Indicators, pre \in PreContents,
       registry \in Registries, provider \in CloudProvider,
       typed \in BOOLEAN, git_init \in BOOLEAN, force \in BOOLEAN :
      \E marked \in SUBSET (0..depth),
         newfmt \in (IF typed THEN BOOLEAN ELSE {FALSE}) :
        /\ marked = {} => ind = "aiswarm.yaml"
        /\ fs = FsOf(InitialEntries(depth, marked, ind, pre))
        /\ fs0 = fs
        /\ req = [p \in {1} |->
                    Request(depth, registry, provider, "basic", typed,
                            git_init, force, "id1")]
        /\ proc = [p \in {1} |-> ProcInit]
        /\ env = [py311 |-> newfmt, faults |-> TRUE, sequential |-> FALSE]

----------------------------------------------------------------------------
(* The steps of initialize() *)

Procs == DOMAIN req

FaultsOf(e) == IF e.faults THEN FaultKinds ELSE {}

Goto(p, label, step) ==
    [proc[p] EXCEPT !.pc = label, !.idx = 1,
                    !.steps = IF step = "" THEN @ ELSE Append(@, step)]

\* an exception leaves the try block of initialize()
Failed(p, step, e, fault) ==
    [proc[p] EXCEPT !.pc = "failed", !.err = e, !.failedAt = step,
                    !.cause = e, !.faulted = @ \/ fault]

\* an exception that a step caught and replaced by another (raise ... in an
\* except block): cause is the exception caught
FailedFrom(p, step, e, cause, fault) ==
    [Failed(p, step, e, fault) EXCEPT !.cause = cause]

\* the call starts: a process waits for the earlier ones when the calls are
\* made one after the other
MayStart(p) ==
    env.sequential => \A q \in Procs : q < p => proc[q].pc = "done"

\* a confirmation whose answer is ignored
ValidateConfirmIgnored(p) ==
    /\ proc[p].pc = "validate"
    /\ MayStart(p)
    /\ UNCHANGED <<fs, fs0, req, env>>
    /\ LET pp == ProjectPath(req[p])
           me == [proc[p] EXCEPT !.steps = Append(@, "validate")]
       IN  IF PathExists(fs, pp) /\ NonEmptyDir(fs, pp) /\ ~req[p].force
           THEN \E yes \in BOOLEAN :
                  proc' = [proc EXCEPT ![p] =
                    [me EXCEPT !.pc = "v_check", !.asked = TRUE,
                               !.answer = IF yes THEN "yes" ELSE "no"]]
           ELSE proc' = [proc EXCEPT ![p] = [me EXCEPT !.pc = "v_check"]]

\* validate_project_location, lines 79-84: the confirmation
ValidateConfirm(p) ==
    /\ proc[p].pc = "validate"
    /\ MayStart(p)
    /\ UNCHANGED <<fs, fs0, req, env>>
    /\ LET pp == ProjectPath(req[p])
           me == [proc[p] EXCEPT !.steps = Append(@, "validate")]
       IN  IF PathExists(fs, pp) /\ NonEmptyDir(fs, pp) /\ ~req[p].force
           THEN \E yes \in BOOLEAN :
                  proc' = [proc EXCEPT ![p] =
                    IF yes
                    THEN [me EXCEPT !.pc = "v_check", !.asked = TRUE,
                                    !.answer = "yes"]
                    ELSE [me EXCEPT !.pc = "failed", !.asked = TRUE,
                                    !.answer = "no", !.err = "Abort",
                                    !.failedAt = "validate"]]
           ELSE proc' = [proc EXCEPT ![p] = [me EXCEPT !.pc = "v_check"]]

\* project checks that force switches off
ValidateCheckForced(p) ==
    /\ proc[p].pc = "v_check"
    /\ UNCHANGED <<fs, fs0, req, env>>
    /\ LET pp == ProjectPath(req[p])
       IN  proc' = [proc EXCEPT ![p] =
             IF ~req[p].force /\ IsSwarmProject(fs, pp)
             THEN Failed(p, "validate", "ProjectExistsError", FALSE)
             ELSE IF ~req[p].force /\ FindParentSwarmProject(fs, pp) # NoPath
             THEN Failed(p, "validate", "ProjectExistsError", FALSE)
             ELSE [Goto(p, "v_mkdir", "") EXCEPT !.checkedEarly = (fs = fs0)]]

\* validate_project_location, lines 86-95: the two project checks
ValidateCheck(p) ==
    /\ proc[p].pc = "v_check"
    /\ UNCHANGED <<fs, fs0, req, env>>
    /\ LET pp == ProjectPath(req[p])
       IN  proc' = [proc EXCEPT ![p] =
             IF IsSwarmProject(fs, pp)
             THEN Failed(p, "validate", "ProjectExistsError", FALSE)
             ELSE IF FindParentSwarmProject(fs, pp) # NoPath
             THEN Failed(p, "validate", "ProjectExistsError", FALSE)
             ELSE [Goto(p, "v_mkdir", "") EXCEPT !.checkedEarly = (fs = fs0)]]

\* no except clause: the exception leaves as it is
ValidateErrorUntranslated(e) == e

\* validate_project_location, lines 102-105: except PermissionError
ValidateError(e) == IF e = "PermissionError" THEN "ProjectInitError" ELSE e

\* one call of the try block of validate_project_location: either the
\* environment refuses it, or it does what the file system lets it do
ValidateCall(p, r, next) ==
    \/ \E e \in FaultsOf(env) :
         /\ fs' = fs
         /\ proc' = [proc EXCEPT ![p] =
                       FailedFrom(p, "validate", ValidateError(e), e, TRUE)]
    \/ /\ r.exc # "none"
       /\ fs' = r.fs
       /\ proc' = [proc EXCEPT ![p] =
                     FailedFrom(p, "validate", ValidateError(r.exc), r.exc,
                                FALSE)]
    \/ /\ r.exc = "none"
       /\ fs' = r.fs
       /\ proc' = [proc EXCEPT ![p] = next]

\* line 98: self.project_path.mkdir(parents=True, exist_ok=True)
ValidateMkdir(p) ==
    /\ proc[p].pc = "v_mkdir"
    /\ UNCHANGED <<fs0, req, env>>
    /\ ValidateCall(p, MkdirParents(fs, ProjectPath(req[p])),
                    Goto(p, "v_touch", ""))

\* lines 99-100: test_file.touch()
ValidateTouch(p) ==
    /\ proc[p].pc = "v_touch"
    /\ UNCHANGED <<fs0, req, env>>
    /\ ValidateCall(p, Touch(fs, Join(ProjectPath(req[p]), <<".write_test">>)),
                    Goto(p, "v_unlink", ""))

\* line 101: test_file.unlink()
ValidateUnlink(p) ==
    /\ proc[p].pc = "v_unlink"
    /\ UNCHANGED <<fs0, req, env>>
    /\ ValidateCall(p, Unlink(fs, Join(ProjectPath(req[p]), <<".write_test">>)),
                    Goto(p, "structure", "structure"))

\* create_project_structure: one turn of the loop of lines 119-121; every
\* exception becomes ProjectInitError (lines 123-124)
CreateProjectStructure(p) ==
    /\ proc[p].pc = "structure"
    /\ UNCHANGED <<fs0, req, env>>
    /\ LET dirs == Directories(req[p], env)
           dir == Join(ProjectPath(req[p]), dirs[proc[p].idx])
           made == MkdirParents(fs, dir)
           kept == Touch(made.fs, Join(dir, <<".gitkeep">>))
           fail(e, fault) ==
               FailedFrom(p, "structure", "ProjectInitError", e, fault)
       IN  \/ \E e \in FaultsOf(env) :
                /\ fs' = fs
                /\ proc' = [proc EXCEPT ![p] = fail(e, TRUE)]
           \/ /\ made.exc # "none"
              /\ fs' = made.fs
              /\ proc' = [proc EXCEPT ![p] = fail(made.exc, FALSE)]
           \/ /\ made.exc = "none"
              /\ \E e \in FaultsOf(env) :
                   /\ fs' = made.fs
                   /\ proc' = [proc EXCEPT ![p] = fail(e, TRUE)]
           \/ /\ made.exc = "none"
              /\ kept.exc # "none"
              /\ fs' = kept.fs
              /\ proc' = [proc EXCEPT ![p] = fail(kept.exc, FALSE)]
           \/ /\ made.exc = "none"
              /\ kept.exc = "none"
              /\ fs' = kept.fs
              /\ proc' = [proc EXCEPT ![p] =
                   IF proc[p].idx < Len(dirs)
                   THEN [proc[p] EXCEPT !.idx = @ + 1]
                   ELSE Goto(p, "config", "config")]

\* generate_config: open(..., "w") then yaml.safe_dump; nothing is caught
GenerateConfig(p) ==
    /\ proc[p].pc = "config"
    /\ UNCHANGED <<fs0, req, env>>
    /\ LET opened == OpenW(fs, ManifestPath(req[p]))
       IN  \/ \E e \in FaultsOf(env) :
                /\ fs' = fs
                /\ proc' = [proc EXCEPT ![p] = Failed(p, "config", e, TRUE)]
           \/ /\ opened.exc # "none"
              /\ fs' = opened.fs
              /\ proc' = [proc EXCEPT ![p] =
                            Failed(p, "config", opened.exc, FALSE)]
           \/ /\ opened.exc = "none"
              /\ ~Representable(req[p])
              /\ fs' = opened.fs
              /\ proc' = [proc EXCEPT ![p] =
                            Failed(p, "config", "RepresenterError", FALSE)]
           \/ /\ opened.exc = "none"
              /\ Representable(req[p])
              /\ fs' = Put(opened.fs, ManifestPath(req[p]),
                           FileNode(YamlDump(req[p])))
              /\ proc' = [proc EXCEPT ![p] =
                            [Goto(p, "agent", "agent") EXCEPT !.idx = 0]]

\* a call whose exception is swallowed: the pipeline goes on
PlainCallSwallowed(p, step, r, next) ==
    \/ /\ FaultsOf(env) # {} \/ r.exc # "none"
       /\ fs' = fs
       /\ proc' = [proc EXCEPT ![p] =
                     [next EXCEPT !.err = "OSError", !.failedAt = step]]
    \/ /\ r.exc = "none"
       /\ fs' = r.fs
       /\ proc' = [proc EXCEPT ![p] = next]

\* a call of a step that catches nothing
PlainCall(p, step, r, next) ==
    \/ \E e \in FaultsOf(env) :
         /\ fs' = fs
         /\ proc' = [proc EXCEPT ![p] = Failed(p, step, e, TRUE)]
    \/ /\ r.exc # "none"
       /\ fs' = r.fs
       /\ proc' = [proc EXCEPT ![p] = Failed(p, step, r.exc, FALSE)]
    \/ /\ r.exc = "none"
       /\ fs' = r.fs
       /\ proc' = [proc EXCEPT ![p] = next]

\* create_example_agent: agent_path.mkdir(exist_ok=True), then the three files
CreateExampleAgent(p) ==
    /\ proc[p].pc = "agent"
    /\ UNCHANGED <<fs0, req, env>>
    /\ LET i == proc[p].idx
       IN  IF i = 0
           THEN PlainCall(p, "agent", Mkdir(fs, AgentPath(req[p])),
                          [proc[p] EXCEPT !.idx = 1])
           ELSE PlainCall(p, "agent",
                          WriteFile(fs, Join(AgentPath(req[p]), <<AgentFiles[i]>>),
                                    <<AgentFiles[i]>>),
                          IF i < Len(AgentFiles)
                          THEN [proc[p] EXCEPT !.idx = @ + 1]
                          ELSE Goto(p, "compose", "compose"))

\* an initialize() that calls init_git whatever git_init is
CreateDockerComposeThenGit(p) ==
    /\ proc[p].pc = "compose"
    /\ UNCHANGED <<fs0, req, env>>
    /\ PlainCall(p, "compose",
                 WriteFile(fs, Join(ProjectPath(req[p]), <<"docker-compose.yml">>),
                           <<"docker-compose.yml">>),
                 Goto(p, "git", "git"))

\* create_docker_compose, and line 319: if self.git_init
CreateDockerCompose(p) ==
    /\ proc[p].pc = "compose"
    /\ UNCHANGED <<fs0, req, env>>
    /\ PlainCall(p, "compose",
                 WriteFile(fs, Join(ProjectPath(req[p]), <<"docker-compose.yml">>),
                           <<"docker-compose.yml">>),
                 IF req[p].git_init THEN Goto(p, "git", "git")
                 ELSE Goto(p, "finish", ""))

\* an init_git that catches nothing
InitGitFatal(p) ==
    /\ proc[p].pc = "git"
    /\ UNCHANGED <<fs0, req, env>>
    /\ LET pp == ProjectPath(req[p])
           repo == MkdirParents(fs, Join(pp, <<".git">>))
           ignore == WriteFile(repo.fs, Join(pp, <<".gitignore">>), <<".gitignore">>)
           fail(e, called) ==
               [Failed(p, "git", e, TRUE) EXCEPT !.warned = TRUE,
                                                 !.gitCalls = @ + called]
       IN  \/ /\ fs' = fs
              /\ proc' = [proc EXCEPT ![p] = fail("ImportError", 0)]
           \/ /\ FaultsOf(env) # {} \/ repo.exc # "none"
              /\ fs' = fs
              /\ proc' = [proc EXCEPT ![p] = fail("OSError", 1)]
           \/ /\ repo.exc = "none"
              /\ FaultsOf(env) # {} \/ ignore.exc # "none"
              /\ fs' = repo.fs
              /\ proc' = [proc EXCEPT ![p] = fail("OSError", 1)]
           \/ /\ repo.exc = "none"
              /\ ignore.exc = "none"
              /\ fs' = ignore.fs
              /\ proc' = [proc EXCEPT ![p] =
                            [Goto(p, "finish", "") EXCEPT !.gitCalls = @ + 1]]

\* init_git: import git, git.Repo.init, the .gitignore; every exception is
\* caught and logged as a warning (lines 296-299)
InitGit(p) ==
    /\ proc[p].pc = "git"
    /\ UNCHANGED <<fs0, req, env>>
    /\ LET pp == ProjectPath(req[p])
           repo == MkdirParents(fs, Join(pp, <<".git">>))
           ignore == WriteFile(repo.fs, Join(pp, <<".gitignore">>), <<".gitignore">>)
           warn(called, fault) ==
               [Goto(p, "finish", "") EXCEPT !.warned = TRUE,
                                             !.gitCalls = @ + called,
                                             !.faulted = @ \/ fault]
       IN  \/ \* ImportError: GitPython is not installed
              /\ fs' = fs
              /\ proc' = [proc EXCEPT ![p] = warn(0, FALSE)]
           \/ \* git.Repo.init fails
              /\ FaultsOf(env) # {} \/ repo.exc # "none"
              /\ fs' = fs
              /\ proc' = [proc EXCEPT ![p] = warn(1, repo.exc = "none")]
           \/ \* the .gitignore cannot be written
              /\ repo.exc = "none"
              /\ FaultsOf(env) # {} \/ ignore.exc # "none"
              /\ fs' = repo.fs
              /\ proc' = [proc EXCEPT ![p] = warn(1, ignore.exc = "none")]
           \/ /\ repo.exc = "none"
              /\ ignore.exc = "none"
              /\ fs' = ignore.fs
              /\ proc' = [proc EXCEPT ![p] =
                            [Goto(p, "finish", "") EXCEPT !.gitCalls = @ + 1]]

\* lines 323-330: the success message; initialize() returns
Finish(p) ==
    /\ proc[p].pc = "finish"
    /\ UNCHANGED <<fs, fs0, req, env>>
    /\ proc' = [proc EXCEPT ![p] =
                  [proc[p] EXCEPT !.pc = "done", !.outcome = "success"]]

\* shutil.rmtree(path) that fails: nothing removed, or everything below path
RmtreeFailures(f, path) == {f, RemoveBelow(f, path)}

\* a removal that empties the directory and leaves it
RmtreeKeepsRoot(f, path) == RemoveBelow(f, path)

\* shutil.rmtree(path)
Rmtree(f, path) == RemoveTree(f, path)

\* a handler that treats the declined confirmation as a clean exit
HandlerRaisesQuietAbort(e) == IF e = "Abort" THEN "Exit(0)" ELSE "Exit(1)"

\* line 338: what the handler raises once the cleanup is over
HandlerRaises(e) == "Exit(1)"

\* the exit code of the init command: 0 when initialize() returns, the code
\* of a typer.Exit, 1 for any other exception
ExitCode(raised) ==
    IF raised \in {"none", "Exit(0)"} THEN 0 ELSE 1

\* a handler that asks and removes the tree whatever the answer
CleanupEager(p) ==
    /\ proc[p].pc = "failed"
    /\ UNCHANGED <<fs0, req, env>>
    /\ LET pp == ProjectPath(req[p])
           me == [proc[p] EXCEPT !.pc = "done", !.errorPrinted = TRUE,
                                 !.outcome = "failed",
                                 !.raised = HandlerRaises(proc[p].err),
                                 !.raisedBy = "handler",
                                 !.steps = Append(@, "cleanup")]
       IN  IF PathExists(fs, pp)
           THEN \E yes \in BOOLEAN :
                  /\ fs' = Rmtree(fs, pp)
                  /\ proc' = [proc EXCEPT ![p] =
                       [me EXCEPT !.cleanupAsked = TRUE,
                                  !.cleanupAnswer = IF yes THEN "yes" ELSE "no"]]
           ELSE /\ fs' = fs
                /\ proc' = [proc EXCEPT ![p] = me]

\* lines 332-338: the handler of initialize()
Cleanup(p) ==
    /\ proc[p].pc = "failed"
    /\ UNCHANGED <<fs0, req, env>>
    /\ LET pp == ProjectPath(req[p])
           me == [proc[p] EXCEPT !.pc = "done", !.errorPrinted = TRUE,
                                 !.outcome = "failed",
                                 !.steps = Append(@, "cleanup")]
       IN  IF PathExists(fs, pp)
           THEN \/ \* the prompt is declined
                   /\ fs' = fs
                   /\ proc' = [proc EXCEPT ![p] =
                        [me EXCEPT !.cleanupAsked = TRUE,
                                   !.cleanupAnswer = "no",
                                   !.raised = HandlerRaises(proc[p].err),
                                   !.raisedBy = "handler"]]
                \/ \* accepted, the tree is removed
                   /\ fs' = Rmtree(fs, pp)
                   /\ proc' = [proc EXCEPT ![p] =
                        [me EXCEPT !.cleanupAsked = TRUE,
                                   !.cleanupAnswer = "yes",
                                   !.raised = HandlerRaises(proc[p].err),
                                   !.raisedBy = "handler"]]
                \/ \* accepted, shutil.rmtree raises
                   \E e \in FaultsOf(env), left \in RmtreeFailures(fs, pp) :
                     /\ fs' = left
                     /\ proc' = [proc EXCEPT ![p] =
                          [me EXCEPT !.cleanupAsked = TRUE,
                                     !.cleanupAnswer = "yes",
                                     !.faulted = TRUE,
                                     !.raised = e,
                                     !.raisedBy = "rmtree"]]
           ELSE /\ fs' = fs
                /\ proc' = [proc EXCEPT ![p] =
                     [me EXCEPT !.raised = HandlerRaises(proc[p].err),
                                !.raisedBy = "handler"]]

Next ==
    \/ \E p \in Procs : ValidateConfirm(p)
    \/ \E p \in Procs : ValidateCheck(p)
    \/ \E p \in Procs : ValidateMkdir(p)
    \/ \E p \in Procs : ValidateTouch(p)
    \/ \E p \in Procs : ValidateUnlink(p)
    \/ \E p \in Procs : CreateProjectStructure(p)
    \/ \E p \in Procs : GenerateConfig(p)
    \/ \E p \in Procs : CreateExampleAgent(p)
    \/ \E p \in Procs : CreateDockerCompose(p)
    \/ \E p \in Procs : InitGit(p)
    \/ \E p \in Procs : Finish(p)
    \/ \E p \in Procs : Cleanup(p)

Spec == Init /\ [][Next]_vars

\* two calls of initialize() for the same project path, started before the
\* project directory holds anything; no call is refused by the environment
InitRace ==
    \E pre \in {"absent", "empty"}, typed1 \in BOOLEAN, typed2 \in BOOLEAN,
       git_init \in BOOLEAN, newfmt \in BOOLEAN :
        /\ fs = FsOf(InitialEntries(1, {}, "aiswarm.yaml", pre))
        /\ fs0 = fs
        /\ req = [p \in {1, 2} |->
                    Request(1, "reg.example.com", "aws", "basic",
                            IF p = 1 THEN typed1 ELSE typed2,
                            git_init, FALSE, IF p = 1 THEN "id1" ELSE "id2")]
        /\ proc = [p \in {1, 2} |-> ProcInit]
        /\ env = [py311 |-> newfmt, faults |-> FALSE, sequential |-> FALSE]

SpecRace == InitRace /\ [][Next]_vars

\* two calls of initialize() for the same name and base path, the second
\* with force and made after the first has ended
InitRetry ==
    \E typed1 \in BOOLEAN, git_init \in BOOLEAN :
      \E newfmt \in (IF typed1 THEN BOOLEAN ELSE {FALSE}) :
        /\ fs = FsOf(InitialEntries(1, {}, "aiswarm.yaml", "absent"))
        /\ fs0 = fs
        /\ req = [p \in {1, 2} |->
                    Request(1, "reg.example.com", "aws", "basic",
                            IF p = 1 THEN typed1 ELSE FALSE,
                            git_init, p = 2, IF p = 1 THEN "id1" ELSE "id2")]
        /\ proc = [p \in {1, 2} |-> ProcInit]
        /\ env = [py311 |-> newfmt, faults |-> TRUE, sequential |-> TRUE]

SpecRetry == InitRetry /\ [][Next]_vars

----------------------------------------------------------------------------
(* Properties *)

\* the directories above the project path, the root among them
Ancestors(r) == {SubSeq(r.base, 1, k) : k \in 0..Len(r.base)}

\* validate_project_location has returned or raised
Validated(p) == proc[p].pc \notin {"validate", "v_check", "v_mkdir", "v_touch", "v_unlink"}

\* validate_project_location has raised
ValidateRaised(p) == proc[p].failedAt = "validate"

\* the state in which the exception has just left the failing step
JustFailed(p) == proc[p].pc = "failed"

Checked(p) == proc[p].pc \notin {"validate", "v_check"}

NonEmptyBefore(p) ==
    PathExists(fs0, ProjectPath(req[p])) /\ NonEmptyDir(fs0, ProjectPath(req[p]))

\* the paths of the fixed subdirectories and of the manifest
FixedPaths(p) ==
    LET pp == ProjectPath(req[p])
        dirs == Directories(req[p], env)
    IN  {Join(pp, dirs[i]) : i \in 1..Len(dirs)}
        \cup {Join(pp, <<"infrastructure">>), ManifestPath(req[p])}

C3_ContentPreserved ==
    \A p \in Procs :
      proc[p].outcome = "failed"
        => \A q \in DOMAIN fs0 :
             IsPrefix(ProjectPath(req[p]), q) => PathExists(fs, q) /\ fs[q] = fs0[q]

\* C4: in a non-empty directory that is no project, without force and with
\* the confirmation declined, the call aborts and creates neither a fixed
\* subdirectory nor the manifest.
C4_NoOverwriteWithoutForce ==
    \A p \in Procs :
      /\ NonEmptyBefore(p)
      /\ ~IsSwarmProject(fs0, ProjectPath(req[p]))
      /\ ~req[p].force
      /\ proc[p].answer = "no"
      => /\ ValidateRaised(p) /\ proc[p].err = "Abort"
         /\ proc[p].outcome # "success"
         /\ \A q \in FixedPaths(p) :
              PathExists(fs, q) => PathExists(fs0, q) /\ fs[q] = fs0[q]

\* C4 witness: such a call has ended.
C4_Witness ==
    \E p \in Procs :
      /\ NonEmptyBefore(p)
      /\ ~IsSwarmProject(fs0, ProjectPath(req[p]))
      /\ ~req[p].force
      /\ proc[p].answer = "no"
      /\ proc[p].pc = "done"

\* the project directory holds one unrelated file and nothing else
OnlyUnrelatedFile(p) ==
    LET pp == ProjectPath(req[p])
    IN  /\ PathExists(fs0, Join(pp, <<"existing-file.txt">>))
        /\ \A q \in DOMAIN fs0 :
             IsPrefix(pp, q) => q \in {pp, Join(pp, <<"existing-file.txt">>)}

\* C5: without force, on a directory that holds only an unrelated file,
\* validate_project_location raises ProjectExistsError.
C5_NonEmptyRaisesExists ==
    \A p \in Procs :
      /\ ~req[p].force
      /\ OnlyUnrelatedFile(p)
      /\ \A a \in Ancestors(req[p]) : ~IsSwarmProject(fs0, a)
      /\ Validated(p)
      => ValidateRaised(p) /\ proc[p].err = "ProjectExistsError"

\* C6: the confirmation is requested exactly when the project path exists,
\* is non-empty and force is false; with force, none is requested and a call
\* on a directory that holds only an unrelated file, below no project and
\* with no call refused by the environment, ends in success with the
\* directory still there.
C6_ConfirmationAndForce ==
    \A p \in Procs :
      /\ proc[p].pc # "validate" =>
           (proc[p].asked <=> (NonEmptyBefore(p) /\ ~req[p].force))
      /\ req[p].force => ~proc[p].asked
      /\ ( /\ req[p].force
           /\ OnlyUnrelatedFile(p)
           /\ \A a \in Ancestors(req[p]) : ~IsSwarmProject(fs0, a)
           /\ ~proc[p].faulted
           /\ proc[p].pc = "done" )
         => proc[p].outcome = "success" /\ PathExists(fs, ProjectPath(req[p]))

\* C7: of two calls for the same project path that both passed the project
\* checks before either created anything, at most one ends in success, and
\* the manifest a successful call wrote still holds its project id.
C7_OneWinner ==
    \A p \in Procs, q \in Procs :
      /\ p # q
      /\ proc[p].checkedEarly /\ proc[q].checkedEarly
      /\ proc[p].pc = "done" /\ proc[q].pc = "done"
      => /\ ~(proc[p].outcome = "success" /\ proc[q].outcome = "success")
           /\ proc[p].outcome = "success" =>
                /\ PathExists(fs, ManifestPath(req[p]))
                /\ fs[ManifestPath(req[p])] = FileNode(YamlDump(req[p]))

\* the node at path is a file with this content
HasFile(path, content) == PathExists(fs, path) /\ fs[path] = FileNode(content)

\* C8: after a successful call the project path holds the six
\* subdirectories, each with its .gitkeep, the three files of the example
\* agent, docker-compose.yml and the manifest, and the manifest read back
\* gives the name, the registry and the provider of the request.
C8_SuccessfulRoundTrip ==
    \A p \in Procs :
      proc[p].outcome = "success"
        => LET pp == ProjectPath(req[p])
               r == req[p]
           IN  /\ \A d \in { <<"agents">>, <<"infrastructure", r.provider>>,
                             <<"scripts">>, <<"config">>, <<"tests">>, <<"docs">> } :
                    /\ IsDir(fs, Join(pp, d))
                    /\ PathExists(fs, Join(pp, d \o <<".gitkeep">>))
               /\ \A i \in 1..Len(AgentFiles) :
                    HasFile(Join(AgentPath(r), <<AgentFiles[i]>>), <<AgentFiles[i]>>)
               /\ HasFile(Join(pp, <<"docker-compose.yml">>), <<"docker-compose.yml">>)
               /\ PathExists(fs, ManifestPath(r))
               /\ IsManifest(fs[ManifestPath(r)])
               /\ LET m == YamlLoad(fs[ManifestPath(r)].data)
                  IN  /\ m.project_name = r.name
                      /\ m.registry_url = r.registry
                      /\ m.infrastructure_provider = r.provider

\* C8 witness: a call without a registry has ended in success.
C8_Witness ==
    \E p \in Procs :
      proc[p].outcome = "success" /\ req[p].registry = NoneVal

C10_OriginalErrorReraised ==
    \A p \in Procs :
      proc[p].pc = "done" /\ proc[p].err # "none"
        => proc[p].raised = proc[p].err

\* C11 as stated: when the removal done by the cleanup itself fails, what
\* initialize() raises to its caller is not the removal's error.
C11_CleanupFailureNotMasking ==
    \A p \in Procs :
      ( /\ proc[p].pc = "done"
        /\ proc[p].err # "none"
        /\ proc[p].cleanupAnswer = "yes" )
        => /\ proc[p].raisedBy # "rmtree"
           /\ ExitCode(proc[p].raised) # 0

\* the artifacts of a successful run other than those of init_git
NonGitArtifacts(p) ==
    LET pp == ProjectPath(req[p])
        r == req[p]
        dirs == Directories(r, env)
    IN  /\ \A i \in 1..Len(dirs) :
             /\ IsDir(fs, Join(pp, dirs[i]))
             /\ PathExists(fs, Join(pp, dirs[i] \o <<".gitkeep">>))
        /\ \A i \in 1..Len(AgentFiles) :
             HasFile(Join(AgentPath(r), <<AgentFiles[i]>>), <<AgentFiles[i]>>)
        /\ HasFile(Join(pp, <<"docker-compose.yml">>), <<"docker-compose.yml">>)
        /\ PathExists(fs, ManifestPath(r))
        /\ IsManifest(fs[ManifestPath(r)])

C13_PermissionDistinguished ==
    \A p \in Procs :
      proc[p].failedAt = "validate" /\ proc[p].cause = "PermissionError"
        => /\ proc[p].err = "ProjectInitError"
           /\ proc[p].err # "ProjectExistsError"

\* C13 witness: the probe file could not be made, the directory created
\* before it is still there.
C13_Witness ==
    \E p \in Procs :
      /\ proc[p].failedAt = "validate"
      /\ proc[p].cause = "PermissionError"
      /\ proc[p].err = "ProjectInitError"
      /\ ~PathExists(fs0, ProjectPath(req[p]))
      /\ PathExists(fs, ProjectPath(req[p]))
      /\ JustFailed(p)

\* the entries directly below a directory
Children(f, d) == {q \in DOMAIN f : q # Root /\ Parent(q) = d}

\* C14: after a successful initialize() the one directory below
\* infrastructure/ is named by the provider's value and the manifest's
\* infrastructure.provider is that same value.
C14_ProviderParameterization ==
    \A p \in Procs :
      proc[p].outcome = "success"
        => LET pp == ProjectPath(req[p])
               infra == Join(pp, <<"infrastructure">>)
           IN  /\ req[p].provider \in CloudProvider
               /\ Children(fs, infra) = {Join(infra, <<req[p].provider>>)}
               /\ IsDir(fs, Join(infra, <<req[p].provider>>))
               /\ IsManifest(fs[ManifestPath(req[p])])
               /\ YamlLoad(fs[ManifestPath(req[p])].data).infrastructure_provider
                    = req[p].provider

\* C14 witness: a call for a provider other than the default has ended in
\* success.
C14_Witness ==
    \E p \in Procs :
      /\ proc[p].outcome = "success"
      /\ req[p].provider = "gcp"
      /\ IsDir(fs, Join(ProjectPath(req[p]), <<"infrastructure", "gcp">>))

\* C15: the exit code is 0 exactly when initialize() ends in success, and 1
\* after every failure, the declined confirmation included, whatever the
\* answer to the cleanup prompt.
C15_ExitCode ==
    \A p \in Procs :
      proc[p].pc = "done"
        => /\ ExitCode(proc[p].raised) = 0 <=> proc[p].outcome = "success"
           /\ proc[p].outcome = "success" <=> proc[p].err = "none"
           /\ proc[p].err # "none" => ExitCode(proc[p].raised) = 1

\* C15 witness: the confirmation and then the cleanup prompt were declined,
\* the exit code is 1.
C15_Witness ==
    \E p \in Procs :
      /\ proc[p].pc = "done"
      /\ proc[p].err = "Abort"
      /\ proc[p].cleanupAnswer = "no"
      /\ ExitCode(proc[p].raised) = 1

\* C16 as stated: when the confirmation is declined the run ends with a
\* non-zero exit and no error message is printed.
C16_CancellationSilent ==
    \A p \in Procs :
      proc[p].pc = "done" /\ proc[p].err = "Abort"
        => /\ ExitCode(proc[p].raised) # 0
           /\ ~proc[p].errorPrinted

\* a marker is among the entries directly below the directory
HasMarker(f, d) ==
    \E q \in Children(f, d) :
      q[Len(q)] \in {"aiswarm.yaml", "agents", "infrastructure"}

\* C17: for every directory d, is_swarm_project(d) is true if and only if d
\* holds one of aiswarm.yaml, agents, infrastructure; the checks of
\* validate_project_location that call it leave the file system as it was.
C17_MarkerPredicate ==
    /\ \A d \in DOMAIN fs :
         IsDir(fs, d) => (IsSwarmProject(fs, d) <=> HasMarker(fs, d))
    /\ \A d \in DOMAIN fs0 :
         IsDir(fs0, d) => (IsSwarmProject(fs0, d) <=> HasMarker(fs0, d))
    /\ \A p \in Procs :
         /\ proc[p].pc = "v_mkdir"
              => fs = fs0 /\ ~HasMarker(fs, ProjectPath(req[p]))
         /\ JustFailed(p) /\ proc[p].err = "ProjectExistsError"
              => /\ fs = fs0
                 /\ \/ HasMarker(fs, ProjectPath(req[p]))
                    \/ \E a \in Ancestors(req[p]) : HasMarker(fs, a)

\* C17 witness: the check was true for the one marker the project
\* directory holds, an infrastructure directory.
C17_Witness ==
    \E p \in Procs :
      /\ JustFailed(p)
      /\ proc[p].err = "ProjectExistsError"
      /\ IsSwarmProject(fs, ProjectPath(req[p]))
      /\ {q[Len(q)] : q \in Children(fs, ProjectPath(req[p]))} = {"infrastructure"}

\* the steps of initialize() in the order of its calls
PipelineOrder == <<"validate", "structure", "config", "agent", "compose", "git">>

\* the steps a call has entered, the cleanup branch left out
StepsRun(p) ==
    LET st == proc[p].steps
    IN  IF st # <<>> /\ st[Len(st)] = "cleanup" THEN SubSeq(st, 1, Len(st) - 1)
        ELSE st

\* the cleanup branch has been entered
CleanupEntered(p) ==
    proc[p].steps # <<>> /\ proc[p].steps[Len(proc[p].steps)] = "cleanup"

\* C18: the steps of one call are entered in the order validate, structure,
\* manifest, example agent, compose file, git (only with git_init), each at
\* most once; once one of the first five has failed no other step is
\* entered and the call ends through the cleanup branch.
C18_LinearPipeline ==
    \A p \in Procs :
      LET run == StepsRun(p)
      IN  /\ IsPrefix(run, PipelineOrder)
          /\ (\E i \in 1..Len(run) : run[i] = "git") => req[p].git_init
          /\ proc[p].pc \in {"structure", "config", "agent", "compose", "git"}
               => run # <<>> /\ run[Len(run)] = proc[p].pc
          /\ proc[p].err # "none"
               => /\ proc[p].pc \in {"failed", "done"}
                  /\ proc[p].failedAt \in {"validate", "structure", "config",
                                           "agent", "compose"}
                  /\ run # <<>> /\ run[Len(run)] = proc[p].failedAt
          /\ CleanupEntered(p) => proc[p].pc = "done" /\ proc[p].err # "none"
          /\ proc[p].pc = "done" /\ proc[p].err # "none" => CleanupEntered(p)
          /\ proc[p].outcome = "success"
               => run = IF req[p].git_init THEN PipelineOrder
                        ELSE SubSeq(PipelineOrder, 1, Len(PipelineOrder) - 1)

\* C18 witness: the example agent failed, the compose file and git were
\* never entered and the call ended through the cleanup branch.
C18_Witness ==
    \E p \in Procs :
      /\ proc[p].pc = "done"
      /\ proc[p].failedAt = "agent"
      /\ req[p].git_init
      /\ proc[p].steps = <<"validate", "structure", "config", "agent", "cleanup">>

\* C19 as stated: after a call that failed at one of the steps 2-5, its
\* cleanup prompt accepted or declined and the removal not failing, a later
\* call for the same name and base path with force, to which the
\* environment refuses nothing, ends in success.
C19_RecoveryAfterFailure ==
    \A p \in Procs, q \in Procs :
      ( /\ p < q
        /\ req[p].name = req[q].name /\ req[p].base = req[q].base
        /\ env.sequential
        /\ proc[p].pc = "done"
        /\ proc[p].failedAt \in {"structure", "config", "agent", "compose"}
        /\ proc[p].raisedBy = "handler"
        /\ req[q].force /\ Representable(req[q])
        /\ proc[q].pc = "done" /\ ~proc[q].faulted )
        => proc[q].outcome = "success"

\* C20: in the step in which the handler of initialize() ends a failed
\* call, the cleanup prompt is issued exactly when the project path exists;
\* declined, the file system stays as the failing step left it; with no
\* project path there is no prompt and nothing is removed.
C20_CleanupAdvisory ==
    [][ \A p \in Procs :
          proc[p].pc = "failed" /\ proc'[p].pc = "done"
            => LET pp == ProjectPath(req[p])
               IN  /\ proc'[p].cleanupAsked <=> PathExists(fs, pp)
                   /\ proc'[p].cleanupAnswer = "no" => fs' = fs
                   /\ ~PathExists(fs, pp)
                        => /\ proc'[p].cleanupAnswer = "none"
                           /\ fs' = fs
                   /\ \A q \in DOMAIN fs' : q \in DOMAIN fs /\ fs'[q] = fs[q] ]_vars

\* C20 witness: the cleanup was declined and what the failed call had
\* created is still there.
C20_Witness ==
    \E p \in Procs :
      /\ proc[p].pc = "done"
      /\ proc[p].cleanupAnswer = "no"
      /\ proc[p].failedAt = "config"
      /\ fs # fs0
      /\ IsDir(fs, Join(ProjectPath(req[p]), <<"agents">>))

\* C21 as stated: a file system or permission failure of the write of the
\* manifest in generate_config leaves that step as ProjectInitError, as a
\* failure of create_project_structure does.
C21_ConfigFailureWrapped ==
    \A p \in Procs :
      ( /\ proc[p].failedAt \in {"structure", "config"}
        /\ proc[p].cause \in FaultKinds )
        => proc[p].err = "ProjectInitError"

\* the directories from a path upward, the root left out
Upward(q) == [i \in 1..Len(q) |-> SubSeq(q, 1, Len(q) - i + 1)]

\* the paths at which the walk is looked at: the project path and the
\* directories above it
WalkStarts(p) == {ProjectPath(req[p])} \cup Ancestors(req[p])

\* the first directory of dirs that is a swarm project, or none
NearestProject(f, dirs) ==
    LET hits == {i \in 1..Len(dirs) : IsSwarmProject(f, dirs[i])}
    IN  IF hits = {} THEN NoPath
        ELSE dirs[CHOOSE n \in hits : \A m \in hits : n <= m]

GitignorePath(p) == Join(ProjectPath(req[p]), <<".gitignore">>)

\* C23 as stated: in a call that ends in success git.Repo.init has been
\* called exactly once when git_init is true and never when it is false.
C23_GitAttemptedOnce ==
    \A p \in Procs :
      proc[p].outcome = "success"
        => proc[p].gitCalls = (IF req[p].git_init THEN 1 ELSE 0)

\* C23 amended: git.Repo.init is called at most once, never when git_init
\* is false and only after the compose file has been written; a call with
\* git_init true that ends in success has called it once, or not at all when
\* the git module could not be imported and the warning was given;
\* .gitignore is written only with git_init true and after a Repo.init that
\* succeeded.
C23_GitGating ==
    \A p \in Procs :
      LET pp == ProjectPath(req[p])
          entered == {i \in 1..Len(proc[p].steps) : proc[p].steps[i] = "git"}
      IN  /\ proc[p].gitCalls \in {0, 1}
          /\ Cardinality(entered) <= 1
          /\ ~req[p].git_init
               => /\ proc[p].gitCalls = 0
                  /\ entered = {}
                  /\ ~proc[p].warned
                  /\ ~PathExists(fs, GitignorePath(p))
          /\ entered # {}
               => /\ \E i \in 1..Len(proc[p].steps) :
                       proc[p].steps[i] = "compose" /\ \A j \in entered : i < j
                  /\ HasFile(Join(pp, <<"docker-compose.yml">>),
                             <<"docker-compose.yml">>)
          /\ proc[p].gitCalls = 1 => entered # {} /\ proc[p].pc \in {"finish", "done"}
          /\ proc[p].outcome = "success" /\ req[p].git_init
               => /\ entered # {}
                  /\ \/ proc[p].gitCalls = 1
                     \/ proc[p].gitCalls = 0 /\ proc[p].warned
          /\ PathExists(fs, GitignorePath(p))
               => /\ req[p].git_init
                  /\ proc[p].gitCalls = 1
                  /\ ~proc[p].warned
                  /\ IsDir(fs, Join(pp, <<".git">>))

\* C23 witness: a call with git_init true has ended in success with the
\* repository made and .gitignore written.
C23_Witness ==
    \E p \in Procs :
      /\ proc[p].outcome = "success"
      /\ req[p].git_init
      /\ proc[p].gitCalls = 1
      /\ HasFile(GitignorePath(p), <<".gitignore">>)

====
